---- MODULE Spec2Model ----
(***************************************************************************)
(* State-machine model of dungeon_crawler.py: the BoundedQueue priority    *)
(* heap, Enemy._find_path / Enemy.update_ai, the Player combat component,  *)
(* the Game start / input / update loop, Dungeon.generate,                 *)
(* GameContext.save_game / load_game, the event queue with its consumer    *)
(* thread GameContext._process_events, and the player's Inventory.         *)
(*                                                                         *)
(* Coordinates (Vector2D) are pairs <<x, y>>.  The dungeon's tile matrix   *)
(* is the set of its passable cells.  Python exceptions are modelled as    *)
(* an error tag ("TypeError", "IndexError") carried by the result of the   *)
(* operation that raises.  Calls to the random module are nondeterministic *)
(* choices.                                                                *)
(***************************************************************************)
EXTENDS Integers, Sequences, FiniteSets

\* ------------------------------------------------------------------------
\* Bounds of the model
\* ------------------------------------------------------------------------
\* Dungeon(80, 40) scaled down: the grid is Width x Height.
Width == 3
Height == 2
\* Largest number of rooms of the dungeon Game.start generates, of enemies
\* it spawns, and of impassable cells the generated dungeon has.
MaxRooms == 2
MaxEnemies == 1
MaxWalls == 1
\* Largest number of calls the host makes to Player.take_damage / Player.heal.
MaxHostCalls == 1
\* The largest dungeon Dungeon.generate is run on is GenWidth x GenHeight.
GenWidth == 16
GenHeight == 13
\* Largest number of calls the host makes to GameContext.load_game.
MaxLoads == 1
\* The priorities pushed onto the event queue are 1..MaxPriority.
MaxPriority == 11
\* The corridor the enemy AI is run in is AIWidth x AIHeight: long enough for
\* a player to stand out of an enemy's sight.
AIWidth == 7
AIHeight == 1

\* The Item objects a host holds.
MaxItems == 2

\* The side of the square dungeon generated next to the game's own.
SquareSide == 40

\* ------------------------------------------------------------------------
\* Program constants
\* ------------------------------------------------------------------------
\* BoundedQueue.__init__(self, max_size: int = 10)
max_size == 10
\* Enemy.vision_range
vision_range == 5
\* Module constants of the generator
ROOM_MIN_SIZE == 4
ROOM_MAX_SIZE == 8

\* Inventory.__init__: the default capacity.
capacity == 10

\* The configured maximum of rooms; no statement of the program reads it.
MAX_ROOMS == 15

\* GameContext.__init__: self.dungeon = Dungeon(80, 40)
dungeon_width == 80
dungeon_height == 40

\* ------------------------------------------------------------------------
\* Vector2D and the grid
\* ------------------------------------------------------------------------
\* The cells of a w x h grid.
GridCells(w, h) == {<<x, y>> : x \in 0..(w - 1), y \in 0..(h - 1)}

Cells == GridCells(Width, Height)

Vector2D_add(a, b) == <<a[1] + b[1], a[2] + b[2]>>

Abs(n) == IF n < 0 THEN -n ELSE n

Manhattan(a, b) == Abs(a[1] - b[1]) + Abs(a[2] - b[2])

\* The order of the direction list of _find_path (and of _handle_input).
Directions == << <<0, -1>>, <<1, 0>>, <<0, 1>>, <<-1, 0>> >>

\* _find_path's test of a neighbour: 0 <= neighbor.x < dungeon.width and
\* 0 <= neighbor.y < dungeon.height and dungeon.tiles[neighbor.x][neighbor.y]
\* A dungeon t is the record of its width, its height and its tiles.
neighbor_ok(t, n) ==
    /\ 0 <= n[1] /\ n[1] < t.width
    /\ 0 <= n[2] /\ n[2] < t.height
    /\ n \in t.tiles

\* ------------------------------------------------------------------------
\* heapq on tuples (priority, (node, path))
\* ------------------------------------------------------------------------
\* list < list: the first differing pair of elements is compared with <,
\* which Vector2D does not define (TypeError); with no differing pair the
\* shorter list is the smaller.
PathLess(p, q) ==
    LET n == IF Len(p) < Len(q) THEN Len(p) ELSE Len(q)
    IN  IF \E i \in 1..n : p[i] # q[i] THEN "TypeError"
        ELSE IF Len(p) < Len(q) THEN "lt" ELSE "ge"

\* (node, path) < (node, path) for the items of _find_path.  The items of
\* the event queue are callables, which have no ordering either: comparing
\* an item with itself finds no differing element, any other pair raises.
ItemLess(a, b) ==
    IF "node" \in DOMAIN a
    THEN (IF a.node # b.node THEN "TypeError" ELSE PathLess(a.path, b.path))
    ELSE (IF a = b THEN "ge" ELSE "TypeError")

\* (priority, item) < (priority, item): "lt", "ge" or the exception raised.
EntryLess(a, b) ==
    IF a.prio # b.prio
    THEN (IF a.prio < b.prio THEN "lt" ELSE "ge")
    ELSE ItemLess(a.item, b.item)

\* Exchange the entries at 0-based positions i and j of the heap list.
Swap(h, i, j) == [h EXCEPT ![i + 1] = h[j + 1], ![j + 1] = h[i + 1]]

RECURSIVE siftdown(_, _, _)
siftdown(h, startpos, pos) ==
    IF pos <= startpos THEN [heap |-> h, err |-> "none"]
    ELSE LET parentpos == (pos - 1) \div 2
             cmp == EntryLess(h[pos + 1], h[parentpos + 1])
         IN  IF cmp = "TypeError" THEN [heap |-> h, err |-> "TypeError"]
             ELSE IF cmp = "ge" THEN [heap |-> h, err |-> "none"]
             ELSE siftdown(Swap(h, pos, parentpos), startpos, parentpos)

RECURSIVE siftup_loop(_, _)
siftup_loop(h, pos) ==
    LET endpos == Len(h)
        limit == endpos \div 2
        childpos == 2 * pos + 1
    IN  IF pos >= limit THEN [heap |-> h, err |-> "none", pos |-> pos]
        ELSE LET cmp == IF childpos + 1 < endpos
                        THEN EntryLess(h[childpos + 1], h[childpos + 2])
                        ELSE "lt"
             IN  IF cmp = "TypeError"
                 THEN [heap |-> h, err |-> "TypeError", pos |-> pos]
                 ELSE LET c == IF cmp = "lt" THEN childpos ELSE childpos + 1
                      IN  siftup_loop(Swap(h, c, pos), c)

\* The end of _siftup: the leaf r.pos reached, the new item is sifted down
\* (towards the root) to its place.
siftup_finish(r, startpos) ==
    IF r.err # "none" THEN [heap |-> r.heap, err |-> r.err]
    ELSE siftdown(r.heap, startpos, r.pos)

siftup(h, pos) == siftup_finish(siftup_loop(h, pos), pos)

heappush(h, entry) == siftdown(Append(h, entry), 0, Len(h))

NoItem == [node |-> <<0, 0>>, path |-> <<>>]

\* What heappop hands back: the heap as it is left and the item returned,
\* or the exception raised.
heappop_result(r, item) == [heap |-> r.heap, err |-> r.err, item |-> item]

heappop(h) ==
    IF Len(h) = 0
    THEN [heap |-> h, err |-> "IndexError", item |-> NoItem]
    ELSE LET lastelt == h[Len(h)]
             rest == SubSeq(h, 1, Len(h) - 1)
         IN  IF Len(rest) = 0
             THEN [heap |-> rest, err |-> "none", item |-> lastelt.item]
             ELSE heappop_result(siftup([rest EXCEPT ![1] = lastelt], 0),
                                 rest[1].item)

\* ------------------------------------------------------------------------
\* BoundedQueue
\* ------------------------------------------------------------------------
\* A queue that is capped at a fifth of max_size.
BoundedQueue_trim_small(r) ==
    IF r.err # "none" THEN r
    ELSE IF Len(r.heap) > max_size \div 5
         THEN [heap |-> SubSeq(r.heap, 1, Len(r.heap) - 1), err |-> "none"]
         ELSE r

\* if len(self._queue) > self.max_size: self._queue.pop()
BoundedQueue_trim(r) ==
    IF r.err # "none" THEN r
    ELSE IF Len(r.heap) > max_size
         THEN [heap |-> SubSeq(r.heap, 1, Len(r.heap) - 1), err |-> "none"]
         ELSE r

BoundedQueue_push(q, priority, item) ==
    BoundedQueue_trim(heappush(q, [prio |-> priority, item |-> item]))

BoundedQueue_pop(q) == heappop(q)

\* bool(open_set): BoundedQueue defines neither __bool__ nor __len__, so the
\* object is always true and "while open_set" never ends the loop.
BoundedQueue_bool(q) == TRUE

\* ------------------------------------------------------------------------
\* Enemy._find_path
\* ------------------------------------------------------------------------
\* path[1:]
Slice1(p) == IF Len(p) = 0 THEN <<>> ELSE Tail(p)

\* The frame of a call: open_set, closed_set, the popped (current, path),
\* the index of the next direction of the for loop, and how the call ended.
find_path_init(position, target) ==
    [start |-> position,
     target |-> target,
     open |-> BoundedQueue_push(<<>>, 0, [node |-> position, path |-> <<>>]).heap,
     closed |-> {},
     pc |-> "pop",
     current |-> position,
     path |-> <<>>,
     dir |-> 1,
     result |-> <<>>,
     err |-> "none"]

\* One pass through the head of the while loop: the loop test, the pop, the
\* goal test and the closed-set test.
\* r is the outcome of open_set.pop().
find_path_popped(f, r) ==
    IF r.err # "none"
    THEN [f EXCEPT !.open = r.heap, !.pc = "raised", !.err = r.err]
    ELSE IF r.item.node = f.target
    THEN [f EXCEPT !.open = r.heap, !.pc = "returned",
                   !.result = Slice1(r.item.path)]
    ELSE IF r.item.node \in f.closed
    THEN [f EXCEPT !.open = r.heap]
    ELSE [f EXCEPT !.open = r.heap,
                   !.closed = @ \cup {r.item.node},
                   !.current = r.item.node,
                   !.path = r.item.path,
                   !.pc = "expand",
                   !.dir = 1]

find_path_pop(t, f) ==
    IF ~BoundedQueue_bool(f.open)
    THEN [f EXCEPT !.pc = "returned", !.result = <<>>]
    ELSE find_path_popped(f, BoundedQueue_pop(f.open))

\* One pass through the body of the for loop, for direction number f.dir.
\* The for loop moves on to the next direction, or ends.
find_path_advance(f) ==
    IF f.dir = Len(Directions)
    THEN [f EXCEPT !.pc = "pop", !.dir = 1, !.current = f.start, !.path = <<>>]
    ELSE [f EXCEPT !.dir = @ + 1]

\* r is the outcome of open_set.push(priority, (neighbor, new_path)).
find_path_pushed(f, r) ==
    IF r.err # "none"
    THEN [f EXCEPT !.open = r.heap, !.pc = "raised", !.err = r.err]
    ELSE find_path_advance([f EXCEPT !.open = r.heap])

find_path_neighbor(t, f) ==
    LET neighbor == Vector2D_add(f.current, Directions[f.dir])
        new_path == Append(f.path, neighbor)
        priority == Len(new_path) + Manhattan(neighbor, f.target)
    IN  IF neighbor_ok(t, neighbor) /\ neighbor \notin f.closed
        THEN find_path_pushed(f, BoundedQueue_push(f.open, priority,
                                      [node |-> neighbor, path |-> new_path]))
        ELSE find_path_advance(f)

find_path_step(t, f) ==
    IF f.pc = "pop" THEN find_path_pop(t, f) ELSE find_path_neighbor(t, f)

RECURSIVE find_path_run(_, _)
find_path_run(t, f) ==
    IF f.pc \in {"returned", "raised"} THEN f
    ELSE find_path_run(t, find_path_step(t, f))

\* The whole call self._find_path(target, dungeon) of an enemy at position.
find_path(position, target, t) == find_path_run(t, find_path_init(position, target))

\* ------------------------------------------------------------------------
\* CombatStats, Player, EnemyType, Enemy
\* ------------------------------------------------------------------------
\* Player.__init__: CombatStats(100, 100, 10, 5)
player_max_hp == 100
player_attack == 10
player_defense == 5

EnemyTypes == {"GOBLIN", "ORC", "TROLL"}

default_hp(ty) == CASE ty = "GOBLIN" -> 30 [] ty = "ORC" -> 50 [] ty = "TROLL" -> 80

default_attack(ty) == CASE ty = "GOBLIN" -> 5 [] ty = "ORC" -> 8 [] ty = "TROLL" -> 12

default_defense(ty) == CASE ty = "GOBLIN" -> 2 [] ty = "ORC" -> 4 [] ty = "TROLL" -> 6

\* Enemy.__init__
Enemy(position, ty) ==
    [position |-> position,
     type |-> ty,
     state |-> "PATROLLING",
     path |-> <<>>,
     hp |-> default_hp(ty),
     max_hp |-> default_hp(ty)]

Max(a, b) == IF a > b THEN a ELSE b

Min(a, b) == IF a < b THEN a ELSE b

\* Player.take_damage: the new hp.
take_damage(hp, amount) == hp - Max(1, amount - player_defense)

\* Player.heal: the new hp.
heal(hp, amount) == Min(player_max_hp, hp + amount)

\* Enemy.update_ai.  recompute is the outcome of random.random() < 0.1.
\* The result carries the enemy as the call leaves it and the exception, if
\* any, that _find_path raised.
\* if self.path: self.position = self.path.pop(0)
move_along_path(e) ==
    IF e.path # <<>>
    THEN [e EXCEPT !.position = Head(e.path), !.path = Tail(e.path)]
    ELSE e

\* self.path = self._find_path(player_pos, dungeon), f being the call's end.
update_ai_path(e, f) ==
    IF f.pc = "raised" THEN [enemy |-> e, err |-> f.err]
    ELSE [enemy |-> move_along_path([e EXCEPT !.path = f.result]), err |-> "none"]

\* An enemy that sees the player only at a distance below vision_range.
update_ai_strict(e, player_pos, t, recompute) ==
    LET distance == Manhattan(player_pos, e.position)
        e1 == [e EXCEPT !.state = IF distance < vision_range
                                  THEN "CHASING" ELSE "PATROLLING"]
    IN  IF e1.state = "CHASING" /\ (e1.path = <<>> \/ recompute)
        THEN update_ai_path(e1, find_path(e1.position, player_pos, t))
        ELSE [enemy |-> move_along_path(e1), err |-> "none"]

update_ai(e, player_pos, t, recompute) ==
    LET distance == Manhattan(player_pos, e.position)
        e1 == [e EXCEPT !.state = IF distance <= vision_range
                                  THEN "CHASING" ELSE "PATROLLING"]
    IN  IF e1.state = "CHASING" /\ (e1.path = <<>> \/ recompute)
        THEN update_ai_path(e1, find_path(e1.position, player_pos, t))
        ELSE [enemy |-> move_along_path(e1), err |-> "none"]

\* ------------------------------------------------------------------------
\* Game
\* ------------------------------------------------------------------------
\* A test of the destination that leaves out the tile lookup.
move_valid_bounds_only(t, new_pos) ==
    /\ 0 <= new_pos[1] /\ new_pos[1] < t.width
    /\ 0 <= new_pos[2] /\ new_pos[2] < t.height

\* _handle_input's test of the destination.
move_valid(t, new_pos) ==
    /\ 0 <= new_pos[1] /\ new_pos[1] < t.width
    /\ 0 <= new_pos[2] /\ new_pos[2] < t.height
    /\ new_pos \in t.tiles

\* The damage the combat check of _update takes from an enemy's hp.
enemy_damage(e) == player_attack

\* The for loop of _update over the copy es of the roster: each enemy's AI
\* update, the combat check and the removal of a dead enemy.  coins[i] is the
\* outcome of the i-th enemy's random draw.  The result is the roster as the
\* loop leaves it, the exception that ended it (if any), and one record per
\* combat check that fired.
\* The combat check on one enemy e after its AI update: what is left of it
\* on the roster, and the record of the check if it fired.
combat_check(e, player_pos) ==
    LET hit == e.position = player_pos
        e2 == IF hit THEN [e EXCEPT !.hp = @ - enemy_damage(e)] ELSE e
        dead == hit /\ e2.hp <= 0
    IN  [enemies |-> IF dead THEN <<>> ELSE <<e2>>,
         hits |-> IF hit
                  THEN <<[type |-> e.type,
                          enemy_hp_before |-> e.hp,
                          enemy_hp_after |-> e2.hp,
                          removed |-> dead]>>
                  ELSE <<>>]

\* c is the first enemy's combat check, rest the loop over the others.
update_join(c, rest) ==
    [enemies |-> c.enemies \o rest.enemies,
     err |-> rest.err,
     hits |-> c.hits \o rest.hits]

RECURSIVE update_enemies(_, _, _, _)

\* r is the outcome of the first enemy's update_ai.
update_first(r, es, coins, player_pos, t) ==
    IF r.err # "none"
    THEN [enemies |-> <<r.enemy>> \o Tail(es), err |-> r.err, hits |-> <<>>]
    ELSE update_join(combat_check(r.enemy, player_pos),
                     update_enemies(Tail(es), Tail(coins), player_pos, t))

update_enemies(es, coins, player_pos, t) ==
    IF es = <<>> THEN [enemies |-> <<>>, err |-> "none", hits |-> <<>>]
    ELSE update_first(update_ai(Head(es), player_pos, t, Head(coins)),
                      es, coins, player_pos, t)

\* The two terminal checks that end _update.
check_transitions(st, run, position, exit_pos, hp) ==
    LET s1 == IF position = exit_pos THEN "VICTORY" ELSE st
        r1 == IF position = exit_pos THEN FALSE ELSE run
    IN  IF hp <= 0 THEN [state |-> "GAME_OVER", running |-> FALSE]
        ELSE [state |-> s1, running |-> r1]

\* A loop that does not look at the running flag.
loop_forever(run) == TRUE

\* while self.running
loop_continues(run) == run

\* Amounts the host passes to Player.take_damage and Player.heal.
DamageAmounts == {3, 200}

HealAmounts == {30, 200}

\* ------------------------------------------------------------------------
\* Item and Inventory
\* ------------------------------------------------------------------------

\* The members of ItemType.
ItemTypes == <<"WEAPON", "POTION", "ARMOR", "QUEST">>

\* The Item objects a host can hold: object i is of the type item_type(i),
\* so that the first two are a weapon and a potion.
Items == 1 .. MaxItems

\* Item.item_type
item_type(item) == ItemTypes[((item - 1) % Len(ItemTypes)) + 1]

\* None, in an equipped slot.
NoneItem == 0

\* Inventory(): no items, both slots empty.
Inventory ==
    [capacity |-> capacity, items |-> <<>>,
     equipped |-> [WEAPON |-> NoneItem, ARMOR |-> NoneItem]]

NoReturn == [op |-> "none"]

\* Inventory.add_item: the inventory afterwards and the value returned.
add_item(inv, item) ==
    IF Len(inv.items) >= inv.capacity
    THEN [inventory |-> inv, value |-> FALSE]
    ELSE [inventory |-> [inv EXCEPT !.items = Append(@, item)], value |-> TRUE]

\* Inventory.equip_item: the inventory and the equipped flags afterwards and
\* the value returned.
equip_item(inv, flags, item) ==
    IF item_type(item) \notin DOMAIN inv.equipped
    THEN [inventory |-> inv, flags |-> flags, value |-> FALSE]
    ELSE IF item_type(item) = "WEAPON" \/ item_type(item) = "ARMOR"
    THEN [inventory |-> [inv EXCEPT !.equipped[item_type(item)] = item],
          flags |-> flags \cup {item}, value |-> TRUE]
    ELSE [inventory |-> inv, flags |-> flags, value |-> FALSE]

\* ------------------------------------------------------------------------
\* GameContext._process_events
\* ------------------------------------------------------------------------

\* No event is held.
NoEvent == [none |-> TRUE]

\* The thread started by GameContext.__init__, about to call pop.
Thread == [pc |-> "pop", event |-> NoEvent, err |-> "none"]

\* event = self.event_queue.pop(), r being what pop does: IndexError is
\* caught and leads to the sleep, any other exception ends the thread.
process_events_pop(th, r) ==
    IF r.err = "none" THEN [th EXCEPT !.pc = "call", !.event = r.item]
    ELSE IF r.err = "IndexError" THEN [th EXCEPT !.pc = "sleep"]
    ELSE [th EXCEPT !.pc = "ended", !.err = r.err]

\* event() has returned; the loop goes on.
process_events_call(th) == [th EXCEPT !.pc = "pop", !.event = NoEvent]

\* time.sleep(0.01) has returned; the loop goes on.
process_events_sleep(th) == [th EXCEPT !.pc = "pop"]

\* ------------------------------------------------------------------------
\* State
\* ------------------------------------------------------------------------
VARIABLES
    state,          \* GameContext.state
    running,        \* Game.running
    pc,             \* where main() is: "init", "input", "update", "exited", "crashed"
    error,          \* the exception that ended the run or the call, or "none"
    tiles,          \* Dungeon.tiles, as the set of passable cells
    player_start,   \* Dungeon.player_start
    exit_pos,       \* Dungeon.exit
    player,         \* Player: position and the hp of its CombatStats
    enemies,        \* GameContext.enemies, the active roster
    hostCalls,      \* number of take_damage / heal calls made so far
    intent,         \* the movement drawn by the last _handle_input
    hits,           \* the combat checks that fired in the last _update
    pf,             \* the frame of the running _find_path call
    pfLive,         \* entries pushed onto open_set and not yet taken by pop
    width,          \* Dungeon.width
    height,         \* Dungeon.height
    rooms,          \* Dungeon.rooms
    calls,          \* the pending calls of _recursive_division, next one first
    gpc,            \* where Dungeon.generate is: "idle", "division", "connect",
                    \* "returned", "raised"
    save_file,      \* the content of SAVE_FILE, or NoFile
    saved,          \* the contents save_game has written to SAVE_FILE so far
    loads,          \* number of load_game calls made so far
    bq,             \* GameContext.event_queue._queue, the heap list
    bqLive,         \* entries pushed onto the event queue and not yet taken by a
                    \* host's pop or run by the consumer
    inventory,      \* the player's Inventory: items and equipped
    item_equipped,  \* the Item objects whose attribute equipped is True
    ret,            \* the last call of an Inventory method and what it returned
    consumer        \* the thread running _process_events: where it is, the
                    \* event it holds and the exception that ended it

vars == <<state, running, pc, error, tiles, player_start, exit_pos, player,
          enemies, hostCalls, intent, hits, pf, pfLive, width, height, rooms,
          calls, gpc, save_file, saved, loads, bq, bqLive, inventory,
          item_equipped, ret, consumer>>

\* The player's Inventory component and the Item objects.
invVars == <<inventory, item_equipped, ret>>

\* What the game loop and a call of _find_path leave alone.
otherVars == <<width, height, rooms, calls, gpc, save_file, saved, loads, bq,
               bqLive, invVars, consumer>>

\* What Dungeon.generate leaves alone besides the game's variables.
saveVars == <<save_file, saved, loads, bq, bqLive, invVars, consumer>>

\* SAVE_FILE does not exist.
NoFile == [exists |-> FALSE]

gameVars == <<state, running, pc, tiles, player_start, exit_pos, player,
              enemies, hostCalls, intent, hits>>

\* What the event queue's operations leave alone.
notQueueVars == <<gameVars, pf, pfLive, width, height, rooms, calls, gpc,
                  save_file, saved, loads, invVars>>

\* GameContext.dungeon
dungeon == [width |-> width, height |-> height, tiles |-> tiles]

NoIntent == [from |-> <<0, 0>>, dir |-> <<0, 0>>]

NoCall == [find_path_init(<<0, 0>>, <<0, 0>>) EXCEPT !.pc = "idle", !.open = <<>>]

\* GameContext.__init__, Dungeon.__init__, Player.__init__, Game.__init__
Constructed ==
    /\ state = "MAIN_MENU"
    /\ running = TRUE
    /\ pc = "init"
    /\ error = "none"
    /\ player_start = <<0, 0>>
    /\ exit_pos = <<0, 0>>
    /\ player = [position |-> <<0, 0>>, hp |-> 100, level |-> 1]
    /\ enemies = <<>>
    /\ hostCalls = 0
    /\ intent = NoIntent
    /\ hits = <<>>
    /\ pf = NoCall
    /\ pfLive = {}
    /\ rooms = <<>>
    /\ calls = <<>>
    /\ gpc = "idle"
    /\ save_file = NoFile
    /\ saved = {}
    /\ loads = 0
    /\ bq = <<>>
    /\ bqLive = {}
    /\ inventory = Inventory
    /\ item_equipped = {}
    /\ ret = NoReturn
    /\ consumer = Thread

Init == Constructed /\ tiles = {} /\ width = Width /\ height = Height

\* ------------------------------------------------------------------------
\* Game.start, Game._main_loop
\* ------------------------------------------------------------------------
\* The room centres a generated dungeon can have on the tiles t, in
\* generation order.
RoomCenters(t) == UNION {[1..n -> t] : n \in 1..MaxRooms}

\* The tile sets a generated w x h dungeon can have.
Layouts(w, h) ==
    {GridCells(w, h) \ walls :
        walls \in {x \in SUBSET GridCells(w, h) : Cardinality(x) <= MaxWalls}}

\* The outcomes of _populate_dungeon's enemy draws for n rooms: for each
\* room, no enemy or an enemy of some type.
Spawns(n) ==
    {sp \in [1..n -> EnemyTypes \cup {"none"}] :
        Cardinality({i \in 1..n : sp[i] # "none"}) <= MaxEnemies}

\* Game.start: generate the dungeon (its tiles, player_start at the centre of
\* the first room, exit at the centre of the last, at most one enemy of any
\* type at each room's centre), put the player on player_start, copy the
\* rooms' enemies to the roster, enter PLAYING and the main loop.
Start ==
    /\ pc = "init"
    /\ \E t \in Layouts(width, height) :
         \E centers \in RoomCenters(t) :
           \E spawn \in Spawns(Len(centers)) :
             LET spawned == SelectSeq([i \in 1..Len(centers) |-> i],
                                      LAMBDA i : spawn[i] # "none")
             IN  /\ tiles' = t
                 /\ player_start' = centers[1]
                 /\ exit_pos' = centers[Len(centers)]
                 /\ player' = [player EXCEPT !.position = centers[1]]
                 /\ enemies' = enemies \o
                        [k \in 1..Len(spawned) |->
                            Enemy(centers[spawned[k]], spawn[spawned[k]])]
    /\ state' = "PLAYING"
    /\ pc' = IF loop_continues(running) THEN "input" ELSE "exited"
    /\ UNCHANGED <<running, error, hostCalls, intent, hits, pf, pfLive, otherVars>>

\* Game._handle_input
HandleInput ==
    /\ pc = "input"
    /\ IF state # "PLAYING"
       THEN player' = player /\ intent' = NoIntent
       ELSE \E d \in 1..Len(Directions) :
              LET new_pos == Vector2D_add(player.position, Directions[d])
              IN  /\ intent' = [from |-> player.position, dir |-> Directions[d]]
                  /\ player' = IF move_valid(dungeon, new_pos)
                               THEN [player EXCEPT !.position = new_pos]
                               ELSE player
    /\ pc' = "update"
    /\ UNCHANGED <<state, running, error, tiles, player_start, exit_pos, enemies,
                   hostCalls, hits, pf, pfLive, otherVars>>

\* Game._update, then _render (which changes nothing) and the loop test.  An
\* exception of _find_path leaves _update, _main_loop and start and is caught
\* in main().
Update ==
    /\ pc = "update"
    /\ \E coins \in [1..Len(enemies) -> BOOLEAN] :
         \E r \in {update_enemies(enemies, coins, player.position, dungeon)},
            tr \in {check_transitions(state, running, player.position, exit_pos,
                                      player.hp)} :
             /\ enemies' = r.enemies
             /\ hits' = r.hits
             /\ error' = r.err
             /\ IF r.err # "none"
                THEN /\ pc' = "crashed"
                     /\ UNCHANGED <<state, running>>
                ELSE /\ state' = tr.state
                     /\ running' = tr.running
                     /\ pc' = IF loop_continues(tr.running) THEN "input" ELSE "exited"
    /\ intent' = NoIntent
    /\ UNCHANGED <<tiles, player_start, exit_pos, player, hostCalls, pf, pfLive, otherVars>>

\* ------------------------------------------------------------------------
\* Calls of the host on the player
\* ------------------------------------------------------------------------
TakeDamage ==
    /\ hostCalls < MaxHostCalls
    /\ \E amount \in DamageAmounts :
         player' = [player EXCEPT !.hp = take_damage(@, amount)]
    /\ hostCalls' = hostCalls + 1
    /\ UNCHANGED <<state, running, pc, error, tiles, player_start, exit_pos, enemies,
                   intent, hits, pf, pfLive, otherVars>>

Heal ==
    /\ hostCalls < MaxHostCalls
    /\ \E amount \in HealAmounts :
         player' = [player EXCEPT !.hp = heal(@, amount)]
    /\ hostCalls' = hostCalls + 1
    /\ UNCHANGED <<state, running, pc, error, tiles, player_start, exit_pos, enemies,
                   intent, hits, pf, pfLive, otherVars>>

Next == Start \/ HandleInput \/ Update \/ TakeDamage \/ Heal

Spec == Init /\ [][Next]_vars

\* The game in a corridor, without calls of the host.
InitAI == Constructed /\ tiles = {} /\ width = AIWidth /\ height = AIHeight

NextAI == Start \/ HandleInput \/ Update

SpecAI == InitAI /\ [][NextAI]_vars

\* ------------------------------------------------------------------------
\* A call of Enemy._find_path, step by step
\* ------------------------------------------------------------------------
HeapEntries(h) == {h[i] : i \in 1..Len(h)}

\* Any dungeon, with no call running.
InitPath == Constructed /\ tiles \in SUBSET Cells /\ width = Width /\ height = Height

\* An enemy standing on a passable cell calls _find_path for a player
\* standing on a passable cell.
FindPathCall ==
    /\ pf.pc = "idle"
    /\ \E position \in tiles, target \in tiles :
         \E f \in {find_path_init(position, target)} :
           pf' = f /\ pfLive' = HeapEntries(f.open)
    /\ UNCHANGED <<gameVars, error, otherVars>>

\* The min entry leaves the heap whether heappop returns it or raises
\* while restoring the heap order.
FindPathPop ==
    /\ pf.pc = "pop"
    /\ \E f \in {find_path_pop(dungeon, pf)} : pf' = f /\ error' = f.err
    /\ pfLive' = IF Len(pf.open) = 0 \/ ~BoundedQueue_bool(pf.open) THEN pfLive
                 ELSE pfLive \ {pf.open[1]}
    /\ UNCHANGED <<gameVars, otherVars>>

FindPathNeighbor ==
    /\ pf.pc = "expand"
    /\ \E f \in {find_path_neighbor(dungeon, pf)} : pf' = f /\ error' = f.err
    /\ LET neighbor == Vector2D_add(pf.current, Directions[pf.dir])
           new_path == Append(pf.path, neighbor)
       IN  pfLive' = IF neighbor_ok(dungeon, neighbor) /\ neighbor \notin pf.closed
                     THEN pfLive \cup
                          {[prio |-> Len(new_path) + Manhattan(neighbor, pf.target),
                            item |-> [node |-> neighbor, path |-> new_path]]}
                     ELSE pfLive
    /\ UNCHANGED <<gameVars, otherVars>>

NextPath == FindPathCall \/ FindPathPop \/ FindPathNeighbor

SpecPath == InitPath /\ [][NextPath]_vars

\* ------------------------------------------------------------------------
\* Room and Dungeon.generate, step by step
\* ------------------------------------------------------------------------
\* Room.__init__.  connections is kept as the two entries _connect_rooms
\* writes: the index in Dungeon.rooms of the room to the EAST and to the
\* WEST, 0 for none.
Room(origin, w, h) ==
    [origin |-> origin,
     width |-> w,
     height |-> h,
     east |-> 0,
     west |-> 0,
     items |-> <<>>,
     enemies |-> <<>>]

\* Room.center
Room_center(r) == <<r.origin[1] + r.width \div 2, r.origin[2] + r.height \div 2>>

\* A test that looks only at whether the other room's origin is in this room.
Room_intersects_corner(self, other) ==
    /\ self.origin[1] <= other.origin[1]
    /\ self.origin[1] + self.width >= other.origin[1]
    /\ self.origin[2] <= other.origin[2]
    /\ self.origin[2] + self.height >= other.origin[2]

\* Room.intersects
Room_intersects(self, other) ==
    /\ self.origin[1] <= other.origin[1] + other.width
    /\ self.origin[1] + self.width >= other.origin[1]
    /\ self.origin[2] <= other.origin[2] + other.height
    /\ self.origin[2] + self.height >= other.origin[2]

\* The two nested for loops of _recursive_division that carve new_room into
\* the tiles t of a w x h dungeon.
carve_room(t, w, h, new_room) ==
    t \cup {c \in {<<i, j>> :
                       i \in new_room.origin[1]..(new_room.origin[1] + new_room.width - 1),
                       j \in new_room.origin[2]..(new_room.origin[2] + new_room.height - 1)} :
               0 <= c[1] /\ c[1] < w /\ 0 <= c[2] /\ c[2] < h}

\* not any(new_room.intersects(r) for r in self.rooms)
room_fits(rs, new_room) == \A i \in 1..Len(rs) : ~Room_intersects(new_room, rs[i])

\* The four recursive calls that end _recursive_division(x, y, w, h), in
\* the order they are made.
subdivisions(c, split_x, split_y) ==
    << [x |-> c.x, y |-> c.y, w |-> split_x - c.x, h |-> split_y - c.y],
       [x |-> split_x, y |-> c.y, w |-> c.w - (split_x - c.x), h |-> split_y - c.y],
       [x |-> c.x, y |-> split_y, w |-> split_x - c.x, h |-> c.h - (split_y - c.y)],
       [x |-> split_x, y |-> split_y, w |-> c.w - (split_x - c.x),
        h |-> c.h - (split_y - c.y)] >>

\* The dimensions of the dungeons generate is run on: one too narrow to hold
\* a room, one that holds rooms.
GenDims == {<<ROOM_MIN_SIZE * 2, GenHeight>>, <<GenWidth, GenHeight>>}

InitGen ==
    /\ Constructed
    /\ tiles = {}
    /\ \E d \in GenDims : width = d[1] /\ height = d[2]

\* Dungeon.generate is called: its first statement calls
\* _recursive_division(0, 0, self.width, self.height).
GenerateCall ==
    /\ gpc = "idle"
    /\ gpc' = "division"
    /\ calls' = <<[x |-> 0, y |-> 0, w |-> width, h |-> height]>>
    /\ UNCHANGED <<gameVars, error, pf, pfLive, width, height, rooms, saveVars>>

\* The body of one call of _recursive_division, up to its recursive calls,
\* which become the next pending calls.
RecursiveDivision ==
    /\ gpc = "division"
    /\ calls # <<>>
    /\ LET c == Head(calls)
       IN  IF c.w <= ROOM_MIN_SIZE * 2 \/ c.h <= ROOM_MIN_SIZE * 2
           THEN /\ calls' = Tail(calls)
                /\ UNCHANGED <<rooms, tiles>>
           ELSE \E rx \in 0..(c.w - ROOM_MIN_SIZE * 2),
                   ry \in 0..(c.h - ROOM_MIN_SIZE * 2),
                   room_w \in ROOM_MIN_SIZE..Min(ROOM_MAX_SIZE, c.w \div 2),
                   room_h \in ROOM_MIN_SIZE..Min(ROOM_MAX_SIZE, c.h \div 2) :
                  LET split_x == c.x + ROOM_MIN_SIZE + rx
                      split_y == c.y + ROOM_MIN_SIZE + ry
                      new_room == Room(<<split_x, split_y>>, room_w, room_h)
                  IN  /\ IF room_fits(rooms, new_room)
                         THEN /\ rooms' = Append(rooms, new_room)
                              /\ tiles' = carve_room(tiles, width, height, new_room)
                         ELSE UNCHANGED <<rooms, tiles>>
                      /\ calls' = subdivisions(c, split_x, split_y) \o Tail(calls)
    /\ UNCHANGED <<state, running, pc, error, player_start, exit_pos, player, enemies,
                   hostCalls, intent, hits, pf, pfLive, width, height, gpc, saveVars>>

\* The first for loop of _connect_rooms for one pair of rooms:
\* for x in range(min(x1, x2), max(x1, x2) + 1): self.tiles[x][y1] = True
\* on the tiles t of a w x h dungeon.  The assignment raises IndexError at
\* the first x with x >= w, or at once if y1 >= h; the cells set before that
\* stay set.  (Centres are never negative, so no index wraps around.)
carve_horizontal(t, w, h, x1, x2, y1) ==
    [tiles |-> IF y1 >= h THEN t
               ELSE t \cup {<<x, y1>> : x \in Min(x1, x2)..Min(Max(x1, x2), w - 1)},
     err |-> IF y1 >= h \/ Max(x1, x2) >= w THEN "IndexError" ELSE "none"]

\* for y in range(min(y1, y2), max(y1, y2) + 1): self.tiles[x2][y] = True
carve_vertical(t, w, h, y1, y2, x2) ==
    [tiles |-> IF x2 >= w THEN t
               ELSE t \cup {<<x2, y>> : y \in Min(y1, y2)..Min(Max(y1, y2), h - 1)},
     err |-> IF x2 >= w \/ Max(y1, y2) >= h THEN "IndexError" ELSE "none"]

\* The corridor between the centres a and b, hr being the outcome of the
\* horizontal loop.
carve_corridor(hr, w, h, a, b) ==
    IF hr.err # "none" THEN hr
    ELSE carve_vertical(hr.tiles, w, h, a[2], b[2], b[1])

\* room_a.connections[Direction.EAST] = room_b
\* room_b.connections[Direction.WEST] = room_a
record_connection(rs, i) ==
    [rs EXCEPT ![i].east = i + 1, ![i + 1].west = i]

RECURSIVE connect_rooms(_, _, _, _, _)

\* cr is the outcome of carving the corridor from room i to room i + 1.
connect_next(cr, rs, i, w, h) ==
    IF cr.err # "none"
    THEN [tiles |-> cr.tiles, rooms |-> rs, err |-> cr.err]
    ELSE connect_rooms(cr.tiles, record_connection(rs, i), i + 1, w, h)

\* The for loop of _connect_rooms from index i on (the first room is 1).
connect_rooms(t, rs, i, w, h) ==
    IF i > Len(rs) - 1
    THEN [tiles |-> t, rooms |-> rs, err |-> "none"]
    ELSE connect_next(
             carve_corridor(
                 carve_horizontal(t, w, h, Room_center(rs[i])[1],
                                  Room_center(rs[i + 1])[1], Room_center(rs[i])[2]),
                 w, h, Room_center(rs[i]), Room_center(rs[i + 1])),
             rs, i, w, h)

\* _recursive_division has returned to generate, which calls _connect_rooms.
ConnectRooms ==
    /\ gpc = "division"
    /\ calls = <<>>
    /\ \E r \in {connect_rooms(tiles, rooms, 1, width, height)} :
         /\ tiles' = r.tiles
         /\ rooms' = r.rooms
         /\ error' = r.err
         /\ gpc' = IF r.err # "none" THEN "raised" ELSE "connect"
    /\ UNCHANGED <<state, running, pc, player_start, exit_pos, player, enemies,
                   hostCalls, intent, hits, pf, pfLive, width, height, calls, saveVars>>

\* The outcomes of _populate_dungeon's item draws for n rooms: for each room,
\* whether Item.create_random is called.
ItemDraws(n) == [1..n -> BOOLEAN]

\* _populate_dungeon's loop body for the room r: spawn is the type of the
\* enemy drawn or "none", item tells whether an item is drawn.  Of an item
\* only its position is kept.
populate_room(r, spawn, item) ==
    [r EXCEPT !.enemies = IF spawn # "none"
                          THEN Append(@, Enemy(Room_center(r), spawn)) ELSE @,
              !.items = IF item THEN Append(@, [position |-> Room_center(r)]) ELSE @]

\* The rest of generate: the test for an empty room list, the placement of
\* the player and of the exit, and _populate_dungeon.
PlaceAndPopulate ==
    /\ gpc = "connect"
    /\ IF rooms = <<>>
       THEN /\ gpc' = "raised"
            /\ error' = "DungeonGenerationError"
            /\ UNCHANGED <<rooms, player_start, exit_pos>>
       ELSE /\ player_start' = Room_center(rooms[1])
            /\ exit_pos' = Room_center(rooms[Len(rooms)])
            /\ \E spawn \in Spawns(Len(rooms)), item \in ItemDraws(Len(rooms)) :
                 rooms' = [i \in 1..Len(rooms) |->
                              populate_room(rooms[i], spawn[i], item[i])]
            /\ gpc' = "returned"
            /\ error' = error
    /\ UNCHANGED <<state, running, pc, tiles, player, enemies, hostCalls, intent,
                   hits, pf, pfLive, width, height, calls, saveVars>>

NextGen == GenerateCall \/ RecursiveDivision \/ ConnectRooms \/ PlaceAndPopulate

SpecGen == InitGen /\ [][NextGen]_vars

\* ------------------------------------------------------------------------
\* Dungeon.generate on the game's dungeon
\* ------------------------------------------------------------------------
\* The dungeon GameContext builds, and a square one.
GameDims == {<<dungeon_width, dungeon_height>>, <<SquareSide, SquareSide>>}

InitGame ==
    /\ Constructed
    /\ tiles = {}
    /\ \E d \in GameDims : width = d[1] /\ height = d[2]

\* Outcomes of random.randint(a, b): the middle of the range, its low end.
randint_middle(a, b) == {(a + b) \div 2}

randint_lowest(a, b) == {a}

\* The body of one call of _recursive_division as in RecursiveDivision, for
\* the runs in which every split is drawn at the middle of its range and
\* every room at its smallest size.
RecursiveDivisionMiddle ==
    /\ gpc = "division"
    /\ calls # <<>>
    /\ LET c == Head(calls)
       IN  IF c.w <= ROOM_MIN_SIZE * 2 \/ c.h <= ROOM_MIN_SIZE * 2
           THEN /\ calls' = Tail(calls)
                /\ UNCHANGED <<rooms, tiles>>
           ELSE \E rx \in randint_middle(0, c.w - ROOM_MIN_SIZE * 2),
                   ry \in randint_middle(0, c.h - ROOM_MIN_SIZE * 2),
                   room_w \in randint_lowest(ROOM_MIN_SIZE,
                                             Min(ROOM_MAX_SIZE, c.w \div 2)),
                   room_h \in randint_lowest(ROOM_MIN_SIZE,
                                             Min(ROOM_MAX_SIZE, c.h \div 2)) :
                  LET split_x == c.x + ROOM_MIN_SIZE + rx
                      split_y == c.y + ROOM_MIN_SIZE + ry
                      new_room == Room(<<split_x, split_y>>, room_w, room_h)
                  IN  /\ IF room_fits(rooms, new_room)
                         THEN /\ rooms' = Append(rooms, new_room)
                              /\ tiles' = carve_room(tiles, width, height, new_room)
                         ELSE UNCHANGED <<rooms, tiles>>
                      /\ calls' = subdivisions(c, split_x, split_y) \o Tail(calls)
    /\ UNCHANGED <<state, running, pc, error, player_start, exit_pos, player, enemies,
                   hostCalls, intent, hits, pf, pfLive, width, height, gpc, saveVars>>

\* generate up to the return of _connect_rooms; the rooms are not populated.
NextGame == GenerateCall \/ RecursiveDivisionMiddle \/ ConnectRooms

SpecGame == InitGame /\ [][NextGame]_vars

\* ------------------------------------------------------------------------
\* GameContext.save_game, GameContext.load_game
\* ------------------------------------------------------------------------
\* SECRET_KEY = secrets.token_bytes(32): drawn afresh by every process and
\* written nowhere.  OtherKeys are the keys anyone else signs with.
SECRET_KEY == "key_of_this_process"

OtherKeys == {"another_key"}

\* hmac.new(key, msg, hashlib.sha256).digest(): the digest tells exactly
\* which key signed which message.
hmac_digest(key, msg) == [key |-> key, msg |-> msg]

\* json.dumps(state).encode(): the bytes of a JSON document.
json_dumps(st) == [json |-> st]

\* Bytes that are no JSON document.
Garbage == [bytes |-> "garbage"]

\* json.loads(serialized)
json_loads(serialized) ==
    IF "json" \in DOMAIN serialized
    THEN [err |-> "none", value |-> serialized.json]
    ELSE [err |-> "JSONDecodeError", value |-> <<>>]

\* The state dictionary of save_game for the player p in a w x h dungeon (the
\* timestamp is left out).
snapshot(p, w, h) ==
    [player |-> [position |-> p.position, health |-> p.hp, level |-> p.level],
     dungeon |-> [width |-> w, height |-> h]]

\* The file save_game writes: serialized + signature.
save_game(p, w, h) ==
    [exists |-> TRUE,
     serialized |-> json_dumps(snapshot(p, w, h)),
     signature |-> hmac_digest(SECRET_KEY, json_dumps(snapshot(p, w, h)))]

\* The three assignments that end load_game, on the parsed state st.  Each
\* subscript raises KeyError if the key is missing; what was assigned before
\* stays assigned.
load_level(p, st) ==
    IF "level" \notin DOMAIN st.player THEN [player |-> p, err |-> "KeyError"]
    ELSE [player |-> [p EXCEPT !.level = st.player.level], err |-> "none"]

load_health(p, st) ==
    IF "health" \notin DOMAIN st.player THEN [player |-> p, err |-> "KeyError"]
    ELSE load_level([p EXCEPT !.hp = st.player.health], st)

load_position(p, st) ==
    IF "position" \notin DOMAIN st.player THEN [player |-> p, err |-> "KeyError"]
    ELSE load_health([p EXCEPT !.position = st.player.position], st)

\* r is the outcome of json.loads.
load_parsed(p, r) ==
    IF r.err # "none" THEN [player |-> p, err |-> r.err]
    ELSE load_position(p, r.value)

\* A load_game that does not compare the signature.
verify_signature_skipped(file) == TRUE

\* hmac.compare_digest(hmac.new(SECRET_KEY, serialized, ...).digest(), signature)
verify_signature(file) == hmac_digest(SECRET_KEY, file.serialized) = file.signature

\* load_game on the player p: the player as the call leaves it and the
\* exception it re-raises, if any.
load_game(p, file) ==
    IF ~file.exists THEN [player |-> p, err |-> "FileNotFoundError"]
    ELSE IF ~verify_signature(file)
    THEN [player |-> p, err |-> "SaveFileCorruptedError"]
    ELSE load_parsed(p, json_loads(file.serialized))

\* What someone other than save_game writes into SAVE_FILE: bytes that are
\* no JSON, a document without health and level, a complete document with
\* values out of range.
TamperedDocs ==
    {Garbage,
     json_dumps([player |-> [position |-> <<1, 1>>]]),
     json_dumps([player |-> [position |-> <<1, 1>>, health |-> 500, level |-> 0],
                 dungeon |-> [width |-> Width, height |-> Height]])}

SaveGame ==
    /\ \E file \in {save_game(player, width, height)} :
         /\ save_file' = file
         /\ saved' = saved \cup {file}
    /\ UNCHANGED <<gameVars, error, pf, pfLive, width, height, rooms, calls, gpc, loads,
                   bq, bqLive, invVars, consumer>>

\* SAVE_FILE is deleted or overwritten from outside: with any content, old
\* or new, under a signature seen in an earlier file or made with another
\* key.
TamperFile ==
    /\ \/ save_file' = NoFile
       \/ \E serialized \in TamperedDocs \cup {f.serialized : f \in saved} :
            \E signature \in {hmac_digest(k, serialized) : k \in OtherKeys}
                             \cup {f.signature : f \in saved} :
              save_file' = [exists |-> TRUE, serialized |-> serialized,
                            signature |-> signature]
    /\ save_file' # save_file
    /\ UNCHANGED <<gameVars, error, pf, pfLive, width, height, rooms, calls, gpc,
                   saved, loads, bq, bqLive, invVars, consumer>>

LoadGame ==
    /\ loads < MaxLoads
    /\ \E r \in {load_game(player, save_file)} :
         /\ player' = r.player
         /\ error' = r.err
    /\ loads' = loads + 1
    /\ UNCHANGED <<state, running, pc, tiles, player_start, exit_pos, enemies,
                   hostCalls, intent, hits, pf, pfLive, width, height, rooms, calls,
                   gpc, save_file, saved, bq, bqLive, invVars, consumer>>

NextSave == SaveGame \/ TamperFile \/ LoadGame \/ TakeDamage \/ Heal

SpecSave == Init /\ [][NextSave]_vars

\* ------------------------------------------------------------------------
\* The event queue: BoundedQueue.push, pop and clear called by the host
\* ------------------------------------------------------------------------
\* self._queue.clear()
BoundedQueue_clear(q) == <<>>

\* The host pushes an event under a priority no pending event has.
QueuePush ==
    /\ \E priority \in 1..MaxPriority :
         /\ \A e \in bqLive : e.prio # priority
         /\ \E r \in {BoundedQueue_push(bq, priority, [event |-> priority])} :
              /\ bq' = r.heap
              /\ error' = r.err
         /\ bqLive' = bqLive \cup {[prio |-> priority, item |-> [event |-> priority]]}
    /\ UNCHANGED <<notQueueVars, consumer>>

\* pop raises IndexError on an empty queue; otherwise the event it returns
\* is no longer pending.
QueuePop ==
    /\ \E r \in {BoundedQueue_pop(bq)} :
         /\ bq' = r.heap
         /\ error' = r.err
         /\ bqLive' = IF r.err # "none" THEN bqLive
                      ELSE {e \in bqLive : e.item # r.item}
    /\ UNCHANGED <<notQueueVars, consumer>>

QueueClear ==
    /\ bq' = BoundedQueue_clear(bq)
    /\ bqLive' = {}
    /\ error' = "none"
    /\ UNCHANGED <<notQueueVars, consumer>>

NextQueue == QueuePush \/ QueuePop \/ QueueClear

SpecQueue == Init /\ [][NextQueue]_vars

\* ------------------------------------------------------------------------
\* The event queue between producers and the consumer thread
\* ------------------------------------------------------------------------
\* The consumer calls pop, under the queue's lock.
ProcessEventsPop ==
    /\ consumer.pc = "pop"
    /\ \E r \in {BoundedQueue_pop(bq)} :
         /\ bq' = r.heap
         /\ consumer' = process_events_pop(consumer, r)
    /\ UNCHANGED <<notQueueVars, error, bqLive>>

\* The consumer runs the event it holds, which is then no longer pending.
ProcessEventsCall ==
    /\ consumer.pc = "call"
    /\ consumer' = process_events_call(consumer)
    /\ bqLive' = {e \in bqLive : e.item # consumer.event}
    /\ UNCHANGED <<notQueueVars, error, bq>>

\* The consumer has found the queue empty and sleeps.
ProcessEventsSleep ==
    /\ consumer.pc = "sleep"
    /\ consumer' = process_events_sleep(consumer)
    /\ UNCHANGED <<notQueueVars, error, bq, bqLive>>

\* Producers push while the consumer runs.
NextEvents == QueuePush \/ ProcessEventsPop \/ ProcessEventsCall \/ ProcessEventsSleep

SpecEvents == Init /\ [][NextEvents]_vars

\* ------------------------------------------------------------------------
\* The player's inventory, used by a host
\* ------------------------------------------------------------------------

AddItem ==
    /\ \E item \in Items :
         \E r \in {add_item(inventory, item)} :
           /\ inventory' = r.inventory
           /\ ret' = [op |-> "add_item", item |-> item, value |-> r.value]
    /\ UNCHANGED <<gameVars, error, pf, pfLive, width, height, rooms, calls, gpc,
                   save_file, saved, loads, bq, bqLive, item_equipped, consumer>>

EquipItem ==
    /\ \E item \in Items :
         \E r \in {equip_item(inventory, item_equipped, item)} :
           /\ inventory' = r.inventory
           /\ item_equipped' = r.flags
           /\ ret' = [op |-> "equip_item", item |-> item, value |-> r.value]
    /\ UNCHANGED <<gameVars, error, pf, pfLive, width, height, rooms, calls, gpc,
                   save_file, saved, loads, bq, bqLive, consumer>>

NextInventory == AddItem \/ EquipItem

SpecInventory == Init /\ [][NextInventory]_vars

\* ------------------------------------------------------------------------
\* Properties of Enemy._find_path (checked under SpecPath)
\* ------------------------------------------------------------------------
PassableNeighbors(t, c) == {n \in t : Manhattan(n, c) = 1}

\* Breadth-first search from the set frontier, d steps away from the start:
\* the number of steps to g, or -1 if g cannot be reached.
RECURSIVE BfsDistance(_, _, _, _, _)
BfsDistance(t, frontier, seen, g, d) ==
    IF g \in frontier THEN d
    ELSE IF frontier = {} THEN -1
    ELSE LET nxt == (UNION {PassableNeighbors(t, c) : c \in frontier}) \ seen
         IN  BfsDistance(t, nxt, seen \cup nxt, g, d + 1)

ShortestDistance(t, s, g) == BfsDistance(t, {s}, {s}, g, 0)

CallEnded == pf.pc \in {"returned", "raised"}

\* C1: when the goal is reachable from the start, _find_path returns a path
\* whose number of coordinates is the breadth-first distance from start to
\* goal.
C1_ShortestPathLength ==
    (CallEnded /\ ShortestDistance(tiles, pf.start, pf.target) >= 0)
        => (/\ pf.pc = "returned"
            /\ Len(pf.result) = ShortestDistance(tiles, pf.start, pf.target))

\* C2: when the goal is not reachable from the start, _find_path returns the
\* empty sequence and raises nothing.
C2_UnreachableReturnsEmpty ==
    (CallEnded /\ ShortestDistance(tiles, pf.start, pf.target) < 0)
        => (pf.pc = "returned" /\ pf.result = <<>> /\ pf.err = "none")

C4_PathFromStartToGoal ==
    (pf.pc = "returned" /\ pf.result # <<>>)
        => (/\ Manhattan(pf.start, pf.result[1]) = 1
            /\ \A i \in 1..(Len(pf.result) - 1) :
                   Manhattan(pf.result[i], pf.result[i + 1]) = 1
            /\ pf.result[Len(pf.result)] = pf.target)

\* ------------------------------------------------------------------------
\* Properties of the combat component and of the game loop (checked under
\* Spec)
\* ------------------------------------------------------------------------
\* The steps of the main loop: _update always leaves pc = "update", and no
\* other operation does; likewise _handle_input and pc = "input".
UpdateStep == pc = "update" /\ pc' # "update"

InputStep == pc = "input" /\ pc' = "update"

\* A call of Player.take_damage: the only operation that lowers the player's
\* hp.
TakeDamageStep == player'.hp < player.hp

Terminal == {"VICTORY", "GAME_OVER"}

\* C5: every CombatStats, of the player and of each enemy on the roster, has
\* 0 <= hp <= max_hp.
C5_HpWithinBounds ==
    /\ 0 <= player.hp /\ player.hp <= player_max_hp
    /\ \A i \in 1..Len(enemies) : 0 <= enemies[i].hp /\ enemies[i].hp <= enemies[i].max_hp

\* C6: every hit takes max(1, attack - defense) from the defender's hp, both
\* the player's hit on an overlapping enemy in _update and Player.take_damage.
C6_DamageFormula ==
    [][/\ UpdateStep =>
            \A i \in 1..Len(hits') :
                hits'[i].enemy_hp_before - hits'[i].enemy_hp_after
                    = Max(1, player_attack - default_defense(hits'[i].type))
       /\ TakeDamageStep =>
            \E amount \in DamageAmounts :
                player.hp - player'.hp = Max(1, amount - player_defense)]_vars

\* C7: in a tick where an enemy stands on the player's cell after its AI
\* update, the enemy loses hp, the player loses hp, and an enemy whose hp
\* reaches 0 leaves the roster.
C7_BidirectionalCombat ==
    [][(UpdateStep /\ hits' # <<>>) =>
            /\ \A i \in 1..Len(hits') :
                   /\ hits'[i].enemy_hp_after < hits'[i].enemy_hp_before
                   /\ (hits'[i].enemy_hp_after <= 0) = hits'[i].removed
            /\ player'.hp < player.hp]_vars

\* C8: at the end of a tick the state is Victory if the player is on the
\* exit, and only otherwise GameOver if the player's hp is <= 0; either
\* outcome halts the loop.
C8_TerminalOrder ==
    [][(UpdateStep /\ pc' # "crashed") =>
            /\ state' = IF player'.position = exit_pos THEN "VICTORY"
                        ELSE IF player'.hp <= 0 THEN "GAME_OVER"
                        ELSE state
            /\ (state' \in Terminal) => (pc' = "exited" /\ ~running')]_vars

Destination == Vector2D_add(intent.from, intent.dir)

\* C10: a movement intent whose destination is out of bounds or impassable
\* changes nothing (player, grid, enemies, game state) and raises nothing; an
\* intent is applied exactly when its destination is in bounds and passable.
C10_IllegalMoveDropped ==
    [][(InputStep /\ state = "PLAYING") =>
            /\ intent'.from = player.position
            /\ error' = error
            /\ UNCHANGED <<tiles, enemies, state, running, exit_pos, player_start>>
            /\ player'.hp = player.hp
            /\ LET dest == Vector2D_add(intent'.from, intent'.dir)
               IN  IF dest \in Cells /\ dest \in tiles
                   THEN player'.position = dest
                   ELSE player'.position = player.position]_vars

\* C10 witness: an intent towards an impassable cell inside the grid was
\* handled and the player has stayed where it was.
C10_Witness ==
    /\ pc = "update"
    /\ intent.dir # <<0, 0>>
    /\ Destination \in Cells \ tiles
    /\ player.position = intent.from

\* ------------------------------------------------------------------------
\* Properties of Dungeon.generate (checked under SpecGen)
\* ------------------------------------------------------------------------
\* The room r lies inside the rectangle with corner <<x, y>>, w wide, h high.
InsideRect(r, x, y, w, h) ==
    /\ x <= r.origin[1] /\ r.origin[1] + r.width <= x + w
    /\ y <= r.origin[2] /\ r.origin[2] + r.height <= y + h

\* The cells of the bounding box of r.
RoomCells(r) ==
    {<<i, j>> : i \in r.origin[1]..(r.origin[1] + r.width - 1),
                j \in r.origin[2]..(r.origin[2] + r.height - 1)}

\* The bounding boxes of the rooms rs, in the order of the list.
Boxes(rs) == [i \in 1..Len(rs) |-> <<rs[i].origin, rs[i].width, rs[i].height>>]

\* A step of _recursive_division that commits a room.
RoomCommitted == gpc = "division" /\ Len(rooms') > Len(rooms)

\* C11: every room _recursive_division commits lies fully inside the grid
\* and inside the rectangle of the call that made it.
C11_RoomInsideGrid ==
    [][RoomCommitted =>
           /\ InsideRect(rooms'[Len(rooms')], 0, 0, width, height)
           /\ InsideRect(rooms'[Len(rooms')], Head(calls).x, Head(calls).y,
                         Head(calls).w, Head(calls).h)]_vars

\* C12: the rooms of the list change only by a room being appended, a room
\* is appended only if its bounding box shares no cell with the box of a room
\* placed before, and so no two rooms of the list overlap.
C12_NoOverlap ==
    [][(Boxes(rooms') # Boxes(rooms)) =>
           /\ Len(rooms') = Len(rooms) + 1
           /\ SubSeq(Boxes(rooms'), 1, Len(rooms)) = Boxes(rooms)
           /\ \A i \in 1..Len(rooms) :
                  RoomCells(rooms'[Len(rooms')]) \cap RoomCells(rooms[i]) = {}
           /\ \A i, j \in 1..Len(rooms') :
                  i # j => RoomCells(rooms'[i]) \cap RoomCells(rooms'[j]) = {}]_vars

\* C12 witness: a second room has been committed next to the first, and the
\* division has ended.
C12_Witness == gpc = "division" /\ calls = <<>> /\ Len(rooms) = 2

\* The passable cells t hold a 4-connected path from a to b.
Joined(t, a, b) == BfsDistance(t, {a} \cap t, {a}, b, 0) >= 0

\* C13: _connect_rooms ends without an error, and after it the centres of
\* every two consecutive rooms are joined by a path of passable, in-bounds,
\* 4-connected cells; so are player_start and exit once generate has
\* returned.
C13_CorridorsConnect ==
    /\ error # "IndexError"
    /\ gpc \in {"connect", "returned"} =>
           /\ tiles \subseteq {<<i, j>> : i \in 0..(width - 1), j \in 0..(height - 1)}
           /\ \A i \in 1..(Len(rooms) - 1) :
                  Joined(tiles, Room_center(rooms[i]), Room_center(rooms[i + 1]))
    /\ gpc = "returned" => Joined(tiles, player_start, exit_pos)

\* C14: generate raises DungeonGenerationError exactly when no room was
\* produced: it never returns with an empty room list and never ends with
\* another error.
C14_FailsIffNoRooms ==
    /\ gpc = "raised" => (error = "DungeonGenerationError" /\ rooms = <<>>)
    /\ gpc = "returned" => (error = "none" /\ rooms # <<>>)

\* ------------------------------------------------------------------------
\* Properties of load_game (checked under SpecSave)
\* ------------------------------------------------------------------------
\* A call of load_game.
LoadStep == loads' = loads + 1

\* The file holds a snapshot that load_game's signature test accepts.
Accepted(file) ==
    /\ file.exists
    /\ file \in saved

\* The values of an accepted snapshot are out of range: hp outside
\* [0, max_hp], position outside the grid, or level below 1.
OutOfRange(file) ==
    LET st == file.serialized.json.player
    IN  \/ st.health < 0 \/ st.health > player_max_hp
        \/ st.position \notin Cells
        \/ st.level < 1

\* C15: load_game of a snapshot with a value out of range ends with
\* InvalidGameStateError and applies nothing of it.
C15_InvalidSnapshotRejected ==
    [][(LoadStep /\ Accepted(save_file) /\ OutOfRange(save_file)) =>
           (error' = "InvalidGameStateError" /\ player' = player)]_vars

\* C16: a load_game that ends with an error, whatever the error, leaves the
\* player's position, hp and level as they were.
C16_FailedLoadChangesNothing ==
    [][(LoadStep /\ error' # "none") => player' = player]_vars

\* C16 witness: a load_game of an overwritten file has ended with
\* SaveFileCorruptedError.
C16_Witness ==
    /\ loads > 0
    /\ error = "SaveFileCorruptedError"
    /\ save_file.exists
    /\ "json" \in DOMAIN save_file.serialized
    /\ save_file.serialized.json.player.position # player.position

\* ------------------------------------------------------------------------
\* Termination of _recursive_division and of _find_path
\* ------------------------------------------------------------------------
\* A call of _recursive_division that goes on to its four recursive calls.
SubdivisionStep == gpc = "division" /\ Len(calls') > Len(calls)

\* A step of a running _find_path call.
FindPathStep == pf.pc \in {"pop", "expand"} /\ pf' # pf

\* C17: every recursive call of _recursive_division receives a rectangle
\* strictly smaller than its caller's, and a call of _find_path goes on
\* popping and expanding until it reaches a return: no step of it ends the
\* call in any other way.
C17_Terminates ==
    [][/\ SubdivisionStep =>
              \A i \in 1..4 : /\ calls'[i].w < Head(calls).w
                              /\ calls'[i].h < Head(calls).h
                              /\ calls'[i].w >= 0 /\ calls'[i].h >= 0
       /\ FindPathStep => pf'.pc \in {"pop", "expand", "returned"}]_vars

\* ------------------------------------------------------------------------
\* Properties of BoundedQueue (checked under SpecQueue)
\* ------------------------------------------------------------------------
\* A push, and the entry it pushes.
PushStep == bqLive' # bqLive /\ bqLive \subseteq bqLive'

\* The entries a push onto a full queue discards: held before or just
\* pushed, and not held after.
Discarded == (HeapEntries(bq) \cup (bqLive' \ bqLive)) \ HeapEntries(bq')

\* A pop that returns an entry.
PopStep == Len(bq') = Len(bq) - 1 /\ Cardinality(bqLive \ bqLive') = 1

\* C19: a push that makes the queue exceed max_size discards one entry, and
\* no entry the queue keeps has a larger priority than the discarded one; no
\* other push discards anything; pop returns a held entry of minimum
\* priority.
C19_DiscardsLargest ==
    [][/\ (PushStep /\ Len(bq) = max_size) =>
              /\ Cardinality(Discarded) = 1
              /\ \A d \in Discarded : \A e \in HeapEntries(bq') : e.prio <= d.prio
       /\ (PushStep /\ Len(bq) < max_size) => Discarded = {}
       /\ PopStep =>
              /\ bqLive \ bqLive' \subseteq HeapEntries(bq)
              /\ \A d \in bqLive \ bqLive' : \A e \in HeapEntries(bq) :
                     d.prio <= e.prio]_vars

\* ------------------------------------------------------------------------
\* Properties of Enemy.update_ai (checked under SpecAI)
\* ------------------------------------------------------------------------
\* What update_ai makes of the enemy e into e2, the player standing on p:
\* Chasing exactly when the distance at the start of the call is at most
\* vision_range; and an enemy left Patrolling has had no path computed: it
\* has taken the next cell of the path it had, or kept its position if it
\* had none.
AiRule(e, e2, p) ==
    /\ e2.state = IF Manhattan(p, e.position) <= vision_range
                  THEN "CHASING" ELSE "PATROLLING"
    /\ e2.state = "PATROLLING" =>
           /\ e2.position = IF e.path = <<>> THEN e.position ELSE Head(e.path)
           /\ e2.path = IF e.path = <<>> THEN <<>> ELSE Tail(e.path)

\* C20: after every update_ai call the enemy is Chasing if the player was
\* within vision_range of it when the call began and Patrolling otherwise;
\* a path is computed only for a Chasing enemy, and a Patrolling enemy with
\* no cached path keeps its position.  (A tick that removes an enemy is left
\* out; in a tick that an exception ends, the enemies after the one whose
\* update raised are not updated.)
C20_ChasingIffInSight ==
    [][(UpdateStep /\ Len(enemies') = Len(enemies)) =>
           \E k \in 0..Len(enemies) :
               /\ pc' # "crashed" => k = Len(enemies)
               /\ \A i \in 1..k : AiRule(enemies[i], enemies'[i], player.position)
               /\ \A i \in (k + 1)..Len(enemies) : enemies'[i] = enemies[i]]_vars

\* C20 witness: the player has stepped out of the enemy's sight, and the
\* update that followed has left the enemy Patrolling where it was created.
C20_Witness ==
    /\ pc = "input"
    /\ player.position # player_start
    /\ Len(enemies) = 1
    /\ Manhattan(player.position, enemies[1].position) > vision_range
    /\ Manhattan(player_start, enemies[1].position) <= vision_range
    /\ enemies[1].state = "PATROLLING"

\* C22: in every tick update_ai moves an enemy by at most one grid step, onto
\* an in-bounds passable tile: its new position is its old position or a
\* cell 4-adjacent to it, on the first move after a path is computed and on
\* the later moves along the cached path.  (A tick that removes an enemy is
\* left out.)
C22_OneStepPerTick ==
    [][(UpdateStep /\ Len(enemies') = Len(enemies)) =>
           \A i \in 1..Len(enemies) :
               /\ Manhattan(enemies'[i].position, enemies[i].position) <= 1
               /\ enemies'[i].position \in tiles
               /\ enemies'[i].position \in GridCells(width, height)]_vars

\* ------------------------------------------------------------------------
\* Properties of the event queue and its consumer (checked under SpecEvents)
\* ------------------------------------------------------------------------
\* The consumer runs the event it holds.
CallStep == consumer.pc = "call" /\ consumer'.pc # "call"

\* The pending event e is still in the queue or in the consumer's hands.
Kept(e) ==
    \/ e \in HeapEntries(bq)
    \/ consumer.pc = "call" /\ consumer.event = e.item

\* C23: under any interleaving of producers' pushes with the consumer, no
\* pushed event is lost or run twice: an event pushed and not yet run is in
\* the queue or held by the consumer, which is what lets a fairly scheduled
\* consumer run it in the end, and an event the consumer runs is a pending
\* one, whatever the number of events pending.
C23_EveryEventRunOnce ==
    [][/\ \A e \in bqLive' : Kept(e)'
       /\ CallStep => \E e \in bqLive : e.item = consumer.event]_vars

\* ------------------------------------------------------------------------
\* Properties of Dungeon.generate on the game's dungeon (checked under
\* SpecGame)
\* ------------------------------------------------------------------------
\* C24: at every point of _recursive_division and after generate the number
\* of rooms committed is at most MAX_ROOMS.
C24_AtMostMaxRooms == Len(rooms) <= MAX_ROOMS

\* ------------------------------------------------------------------------
\* Properties of Inventory (checked under SpecInventory)
\* ------------------------------------------------------------------------

\* The Item objects in the items list.
Owned == {inventory.items[i] : i \in 1 .. Len(inventory.items)}

\* C21: after any sequence of add_item and equip_item calls, an item in an
\* equipped slot is in the items list, a call of equip_item that returned
\* True was made with an item of the list, and the list holds no more than
\* capacity items.
C21_EquippedIsOwned ==
    /\ \A slot \in DOMAIN inventory.equipped :
         inventory.equipped[slot] # NoneItem => inventory.equipped[slot] \in Owned
    /\ ret.op = "equip_item" /\ ret.value => ret.item \in Owned
    /\ Len(inventory.items) <= inventory.capacity

====
